---- MODULE Spec2Model ----
(***************************************************************************)
(* Model of sciurus17_examples_py/gripper_control.py: main() issues nine   *)
(* motion steps (arm to the init pose, left gripper open/close twice,      *)
(* right gripper open/close twice); each step prepares its planning        *)
(* component and runs plan_and_execute, which logs, plans, executes the    *)
(* plan when there is one, and sleeps.  The planner, the executor and the  *)
(* delay are external blocking calls: the planner returns a plan, returns  *)
(* no plan, or raises; the executor returns or raises.                     *)
(***************************************************************************)
EXTENDS Integers, Sequences, FiniteSets, TLC

VARIABLES
    pc,          \* position of the single thread in main / plan_and_execute
    step,        \* index (1..9) of the motion step main is at
    plan_result, \* local of plan_and_execute: result of planning_component.plan
    components,  \* start state and goal held by each planning component
    params,      \* the two PlanRequestParameters instances of main
    robotVer,    \* version of the robot's live state (one per executed trajectory)
    nplans,      \* trajectories created so far by the planner in this process
    inflight,    \* external blocking calls that have not returned yet
    trace,       \* calls made to the collaborators, and their returns, in order
    returned,    \* what each finished plan_and_execute call returned to main
    given,       \* the parameters the running plan_and_execute call was given
    runs         \* traces of the earlier launches of the process

vars == <<pc, step, plan_result, components, params, robotVer, nplans,
          inflight, trace, returned, given, runs>>

\* ------------------------------------------------------------------ data

\* for _ in range(2)
RangeCount == 2

\* degrees handed to math.radians
R_GRIPPER_CLOSE == 0
R_GRIPPER_OPEN == 40
L_GRIPPER_CLOSE == 0
L_GRIPPER_OPEN == -40

\* max_acceleration_scaling_factor / max_velocity_scaling_factor, in tenths
ScalingTenths == 1

\* sleep_time=0.0, the default main never overrides
DefaultSleepTime == 0

None == [ok |-> FALSE, trajectory |-> 0, set |-> FALSE]

ComponentNames == {"arm", "l_gripper", "r_gripper"}

\* sciurus17.get_planning_component(<group>)
GroupOf(c) ==
    CASE c = "arm" -> "two_arm_group"
      [] c = "l_gripper" -> "l_gripper_group"
      [] c = "r_gripper" -> "r_gripper_group"

NoGoal == [kind |-> "none", group |-> "", name |-> "", deg |-> 0]

NamedGoal(c, name) ==
    [kind |-> "configuration_name", group |-> GroupOf(c), name |-> name, deg |-> 0]

\* RobotState(robot_model) with set_joint_group_positions(group, [angle])
JointGoal(group, deg) ==
    [kind |-> "robot_state", group |-> group, name |-> "", deg |-> deg]

MotionStep(c, goal, single) ==
    [comp |-> c, goal |-> goal, single |-> single, multi |-> "None",
     sleep_time |-> DefaultSleepTime]

ArmStep ==
    MotionStep("arm", NamedGoal("arm", "two_arm_init_pose"), "plan_request_params")

\* the right gripper's group named in the left gripper's close step
LGripperLoopBody_WrongGroup ==
    << MotionStep("l_gripper", JointGoal("l_gripper_group", L_GRIPPER_OPEN),
                  "gripper_plan_request_params"),
       MotionStep("l_gripper", JointGoal("r_gripper_group", L_GRIPPER_CLOSE),
                  "gripper_plan_request_params") >>

\* the two halves of the left gripper's loop body swapped
LGripperLoopBody_CloseFirst ==
    << MotionStep("l_gripper", JointGoal("l_gripper_group", L_GRIPPER_CLOSE),
                  "gripper_plan_request_params"),
       MotionStep("l_gripper", JointGoal("l_gripper_group", L_GRIPPER_OPEN),
                  "gripper_plan_request_params") >>

LGripperLoopBody ==
    << MotionStep("l_gripper", JointGoal("l_gripper_group", L_GRIPPER_OPEN),
                  "gripper_plan_request_params"),
       MotionStep("l_gripper", JointGoal("l_gripper_group", L_GRIPPER_CLOSE),
                  "gripper_plan_request_params") >>

RGripperLoopBody ==
    << MotionStep("r_gripper", JointGoal("r_gripper_group", R_GRIPPER_OPEN),
                  "gripper_plan_request_params"),
       MotionStep("r_gripper", JointGoal("r_gripper_group", R_GRIPPER_CLOSE),
                  "gripper_plan_request_params") >>

RECURSIVE Repeat(_, _)
Repeat(body, n) == IF n = 0 THEN <<>> ELSE body \o Repeat(body, n - 1)

\* the steps of main in program order, its two loops unrolled
MainSequence ==
    <<ArmStep>> \o Repeat(LGripperLoopBody, RangeCount)
                \o Repeat(RGripperLoopBody, RangeCount)

NSteps == Len(MainSequence)

Cur == MainSequence[step]

\* the two tests in the other order: single_plan_parameters wins when both
\* are given
PlanArgs_SingleFirst(single, multi) ==
    IF single # "None"
    THEN [kw |-> "single_plan_parameters", value |-> single]
    ELSE IF multi # "None"
         THEN [kw |-> "multi_plan_parameters", value |-> multi]
         ELSE [kw |-> "", value |-> "None"]

\* the keyword and the value plan() is called with
PlanArgs(single, multi) ==
    IF multi # "None"
    THEN [kw |-> "multi_plan_parameters", value |-> multi]
    ELSE IF single # "None"
         THEN [kw |-> "single_plan_parameters", value |-> single]
         ELSE [kw |-> "", value |-> "None"]

Evt(op, s, c, kw, text, num) ==
    [op |-> op, step |-> s, comp |-> c, kw |-> kw, text |-> text, num |-> num,
     goal |-> NoGoal]

\* a planning request: what the component holds when plan() is called on it
PlanEvt(s, c, args, held) ==
    [op |-> "plan", step |-> s, comp |-> c, kw |-> args.kw, text |-> args.value,
     num |-> held.start, goal |-> held.goal]

Call(op, s) == [op |-> op, step |-> s]

\* plan_and_execute's parameters outside a call: the defaults of its signature
NoArgs ==
    [planning_component |-> "", single_plan_parameters |-> "None",
     multi_plan_parameters |-> "None", sleep_time |-> DefaultSleepTime]

\* ------------------------------------------------------------- the process

\* a fresh process, before main runs
Fresh ==
    [pc |-> "main",
     step |-> 1,
     plan_result |-> None,
     components |-> [c \in ComponentNames |-> [start |-> -1, goal |-> NoGoal]],
     params |-> [p \in {"plan_request_params", "gripper_plan_request_params"} |->
                   [created |-> FALSE, acc |-> 0, vel |-> 0]],
     robotVer |-> 0,
     nplans |-> 0,
     inflight |-> {},
     trace |-> <<>>,
     returned |-> <<>>,
     given |-> NoArgs]

ProcessStart ==
    /\ pc = Fresh.pc
    /\ step = Fresh.step
    /\ plan_result = Fresh.plan_result
    /\ components = Fresh.components
    /\ params = Fresh.params
    /\ robotVer = Fresh.robotVer
    /\ nplans = Fresh.nplans
    /\ inflight = Fresh.inflight
    /\ trace = Fresh.trace
    /\ returned = Fresh.returned
    /\ given = Fresh.given

Init ==
    /\ ProcessStart
    /\ runs = <<>>

\* main up to the first motion step: rclpy.init, MoveItPy, the planning
\* components, the two parameter instances and their scaling factors
MainInit ==
    /\ pc = "main"
    /\ params' = [p \in DOMAIN params |->
                    [created |-> TRUE, acc |-> ScalingTenths, vel |-> ScalingTenths]]
    /\ trace' = trace \o << Evt("rclpy_init", 0, "", "", "", 0),
                            Evt("log_info", 0, "", "", "MoveItPy instance created", 0) >>
    /\ pc' = "set_start"
    /\ UNCHANGED <<step, plan_result, components, robotVer, nplans, inflight, returned, given, runs>>

\* the start state set only the first time a component is used
SetStartState_OnlyFirstUse ==
    /\ pc = "set_start"
    /\ IF components[Cur.comp].start = -1
       THEN /\ components' = [components EXCEPT ![Cur.comp].start = robotVer]
            /\ trace' = Append(trace, Evt("set_start_state", step, Cur.comp, "", "", robotVer))
       ELSE UNCHANGED <<components, trace>>
    /\ pc' = "set_goal"
    /\ UNCHANGED <<step, plan_result, params, robotVer, nplans, inflight, returned, given, runs>>

\* <component>.set_start_state_to_current_state()
SetStartState ==
    /\ pc = "set_start"
    /\ components' = [components EXCEPT ![Cur.comp].start = robotVer]
    /\ trace' = Append(trace, Evt("set_start_state", step, Cur.comp, "", "", robotVer))
    /\ pc' = "set_goal"
    /\ UNCHANGED <<step, plan_result, params, robotVer, nplans, inflight, returned, given, runs>>

\* <component>.set_goal_state(configuration_name=... | robot_state=...)
SetGoalState ==
    /\ pc = "set_goal"
    /\ components' = [components EXCEPT ![Cur.comp].goal = Cur.goal]
    /\ trace' = Append(trace, Evt("set_goal_state", step, Cur.comp, Cur.goal.kind,
                                  Cur.goal.group, Cur.goal.deg))
    /\ pc' = "call"
    /\ UNCHANGED <<step, plan_result, params, robotVer, nplans, inflight, returned, given, runs>>

\* main calls plan_and_execute(sciurus17, <component>, logger,
\* single_plan_parameters=<parameters>): the parameters are bound
CallPlanAndExecute ==
    /\ pc = "call"
    /\ given' = [planning_component |-> Cur.comp,
                 single_plan_parameters |-> Cur.single,
                 multi_plan_parameters |-> Cur.multi,
                 sleep_time |-> Cur.sleep_time]
    /\ pc' = "log_planning"
    /\ UNCHANGED <<step, plan_result, components, params, robotVer, nplans, inflight, trace,
                   returned, runs>>

\* plan_and_execute: logger.info("Planning trajectory")
LogPlanning ==
    /\ pc = "log_planning"
    /\ trace' = Append(trace, Evt("log_info", step, "", "", "Planning trajectory", 0))
    /\ pc' = "plan"
    /\ UNCHANGED <<step, plan_result, components, params, robotVer, nplans, inflight, returned, given, runs>>

\* planning_component.plan(...) is entered
PlanCall ==
    /\ pc = "plan"
    /\ trace' = Append(trace, PlanEvt(step, given.planning_component,
                                      PlanArgs(given.single_plan_parameters,
                                               given.multi_plan_parameters),
                                      components[given.planning_component]))
    /\ inflight' = inflight \cup {Call("plan", step)}
    /\ pc' = "planning"
    /\ UNCHANGED <<step, plan_result, components, params, robotVer, nplans, returned, given, runs>>

\* plan() returns a truthy result holding a new trajectory
PlanSuccess ==
    /\ pc = "planning"
    /\ nplans' = nplans + 1
    /\ plan_result' = [ok |-> TRUE, trajectory |-> nplans + 1, set |-> TRUE]
    /\ trace' = Append(trace, Evt("plan_return", step, given.planning_component, "", "Success", nplans + 1))
    /\ inflight' = inflight \ {Call("plan", step)}
    /\ pc' = "if_plan_result"
    /\ UNCHANGED <<step, components, params, robotVer, returned, given, runs>>

\* plan() returns a falsy result: no feasible trajectory
PlanFailure ==
    /\ pc = "planning"
    /\ plan_result' = [ok |-> FALSE, trajectory |-> 0, set |-> TRUE]
    /\ trace' = Append(trace, Evt("plan_return", step, given.planning_component, "", "Failure", 0))
    /\ inflight' = inflight \ {Call("plan", step)}
    /\ pc' = "if_plan_result"
    /\ UNCHANGED <<step, components, params, robotVer, nplans, returned, given, runs>>

\* plan() raises: nothing in plan_and_execute or main catches it
PlanRaise ==
    /\ pc = "planning"
    /\ trace' = Append(trace, Evt("plan_raise", step, given.planning_component, "", "", 0))
    /\ inflight' = inflight \ {Call("plan", step)}
    /\ pc' = "crashed"
    /\ UNCHANGED <<step, plan_result, components, params, robotVer, nplans, returned, given, runs>>

\* if plan_result: logger.info("Executing plan")
LogExecuting ==
    /\ pc = "if_plan_result"
    /\ plan_result.ok
    /\ trace' = Append(trace, Evt("log_info", step, "", "", "Executing plan", 0))
    /\ pc' = "execute"
    /\ UNCHANGED <<step, plan_result, components, params, robotVer, nplans, inflight, returned, given, runs>>

\* a retry policy in place of permissive-continue: plan the failed step again
LogFailed_Retry ==
    /\ pc = "if_plan_result"
    /\ ~plan_result.ok
    /\ trace' = Append(trace, Evt("log_error", step, "", "", "Planning failed", 0))
    /\ pc' = "plan"
    /\ UNCHANGED <<step, plan_result, components, params, robotVer, nplans, inflight, returned, given, runs>>

\* an abort policy: the first planning failure ends the sequence
LogFailed_Abort ==
    /\ pc = "if_plan_result"
    /\ ~plan_result.ok
    /\ trace' = Append(trace, Evt("log_error", step, "", "", "Planning failed", 0))
    /\ pc' = "shutdown"
    /\ UNCHANGED <<step, plan_result, components, params, robotVer, nplans, inflight, returned, given, runs>>

\* the else branch missing: a failed plan leaves no notice
LogFailed_Silent ==
    /\ pc = "if_plan_result"
    /\ ~plan_result.ok
    /\ pc' = "sleep"
    /\ UNCHANGED <<step, plan_result, components, params, robotVer, nplans, inflight, trace,
                   returned, given, runs>>

\* the failure reported at warning severity
LogFailed_Warn ==
    /\ pc = "if_plan_result"
    /\ ~plan_result.ok
    /\ trace' = Append(trace, Evt("log_warn", step, "", "", "Planning failed", 0))
    /\ pc' = "sleep"
    /\ UNCHANGED <<step, plan_result, components, params, robotVer, nplans, inflight, returned, given, runs>>

\* the sleep inside the if branch: a failed step returns without the delay
LogFailed_SkipsDelay ==
    /\ pc = "if_plan_result"
    /\ ~plan_result.ok
    /\ trace' = Append(trace, Evt("log_error", step, "", "", "Planning failed", 0))
    /\ plan_result' = None
    /\ returned' = Append(returned, "None")
    /\ given' = NoArgs
    /\ IF step < NSteps
       THEN step' = step + 1 /\ pc' = "set_start"
       ELSE step' = step /\ pc' = "shutdown"
    /\ UNCHANGED <<components, params, robotVer, nplans, inflight, runs>>

\* the if/else dropped: whatever plan() returned is executed
LogFailed_ExecutesAnyway ==
    /\ pc = "if_plan_result"
    /\ ~plan_result.ok
    /\ trace' = Append(trace, Evt("log_info", step, "", "", "Executing plan", 0))
    /\ pc' = "execute"
    /\ UNCHANGED <<step, plan_result, components, params, robotVer, nplans, inflight, returned,
                   given, runs>>

\* a failed plan answered by lowering the velocity scaling of the parameters
\* instance the step was given
LogFailed_SlowsDown ==
    /\ pc = "if_plan_result"
    /\ ~plan_result.ok
    /\ trace' = Append(trace, Evt("log_error", step, "", "", "Planning failed", 0))
    /\ params' = [params EXCEPT ![given.single_plan_parameters].vel = 0]
    /\ pc' = "sleep"
    /\ UNCHANGED <<step, plan_result, components, robotVer, nplans, inflight, returned,
                   given, runs>>

\* else: logger.error("Planning failed")
LogFailed ==
    /\ pc = "if_plan_result"
    /\ ~plan_result.ok
    /\ trace' = Append(trace, Evt("log_error", step, "", "", "Planning failed", 0))
    /\ pc' = "sleep"
    /\ UNCHANGED <<step, plan_result, components, params, robotVer, nplans, inflight, returned, given, runs>>

\* the trajectory of the first plan kept and executed again, in place of
\* plan_result.trajectory
ExecuteCall_StaleTrajectory ==
    /\ pc = "execute"
    /\ trace' = Append(trace, Evt("execute", step, given.planning_component, "", "", 1))
    /\ inflight' = inflight \cup {Call("execute", step)}
    /\ pc' = "executing"
    /\ UNCHANGED <<step, plan_result, components, params, robotVer, nplans, returned, given, runs>>

\* execute started without waiting for it to finish
ExecuteCall_NoWait ==
    /\ pc = "execute"
    /\ trace' = Append(trace, Evt("execute", step, given.planning_component, "", "", plan_result.trajectory))
    /\ inflight' = inflight \cup {Call("execute", step)}
    /\ pc' = "sleep"
    /\ UNCHANGED <<step, plan_result, components, params, robotVer, nplans, returned, given, runs>>

\* robot.execute(plan_result.trajectory, controllers=[]) is entered
ExecuteCall ==
    /\ pc = "execute"
    /\ trace' = Append(trace, Evt("execute", step, given.planning_component, "", "", plan_result.trajectory))
    /\ inflight' = inflight \cup {Call("execute", step)}
    /\ pc' = "executing"
    /\ UNCHANGED <<step, plan_result, components, params, robotVer, nplans, returned, given, runs>>

\* execute() returns: the robot has moved
ExecuteReturn ==
    /\ pc = "executing"
    /\ robotVer' = robotVer + 1
    /\ trace' = Append(trace, Evt("execute_return", step, given.planning_component, "", "", 0))
    /\ inflight' = inflight \ {Call("execute", step)}
    /\ pc' = "sleep"
    /\ UNCHANGED <<step, plan_result, components, params, nplans, returned, given, runs>>

\* a try/except around execute: the fault is swallowed and the step goes on
ExecuteRaise_Caught ==
    /\ pc = "executing"
    /\ trace' = Append(trace, Evt("execute_raise", step, given.planning_component, "", "", 0))
    /\ inflight' = inflight \ {Call("execute", step)}
    /\ pc' = "sleep"
    /\ UNCHANGED <<step, plan_result, components, params, robotVer, nplans, returned, given, runs>>

\* execute() raises: nothing in plan_and_execute or main catches it
ExecuteRaise ==
    /\ pc = "executing"
    /\ trace' = Append(trace, Evt("execute_raise", step, given.planning_component, "", "", 0))
    /\ inflight' = inflight \ {Call("execute", step)}
    /\ pc' = "crashed"
    /\ UNCHANGED <<step, plan_result, components, params, robotVer, nplans, returned, given, runs>>

\* time.sleep(sleep_time) is entered
SleepCall ==
    /\ pc = "sleep"
    /\ trace' = Append(trace, Evt("sleep", step, "", "", "", given.sleep_time))
    /\ inflight' = inflight \cup {Call("sleep", step)}
    /\ pc' = "sleeping"
    /\ UNCHANGED <<step, plan_result, components, params, robotVer, nplans, returned, given, runs>>

\* a failed step making main skip the step that follows it
SleepReturn_SkipsAfterFailure ==
    /\ pc = "sleeping"
    /\ trace' = Append(trace, Evt("sleep_return", step, "", "", "", 0))
    /\ inflight' = inflight \ {Call("sleep", step)}
    /\ plan_result' = None
    /\ returned' = Append(returned, "None")
    /\ given' = NoArgs
    /\ IF step < NSteps
       THEN /\ step' = (IF ~plan_result.ok /\ step + 1 < NSteps THEN step + 2 ELSE step + 1)
            /\ pc' = "set_start"
       ELSE step' = step /\ pc' = "shutdown"
    /\ UNCHANGED <<components, params, robotVer, nplans, runs>>

\* main ending one step early (its last call site dropped)
SleepReturn_EndsEarly ==
    /\ pc = "sleeping"
    /\ trace' = Append(trace, Evt("sleep_return", step, "", "", "", 0))
    /\ inflight' = inflight \ {Call("sleep", step)}
    /\ plan_result' = None
    /\ returned' = Append(returned, "None")
    /\ given' = NoArgs
    /\ IF step < NSteps - 1
       THEN step' = step + 1 /\ pc' = "set_start"
       ELSE step' = step /\ pc' = "shutdown"
    /\ UNCHANGED <<components, params, robotVer, nplans, runs>>

\* time.sleep returns, plan_and_execute returns, main goes on to its next
\* statement: the next step, or rclpy.shutdown() after the last one
SleepReturn ==
    /\ pc = "sleeping"
    /\ trace' = Append(trace, Evt("sleep_return", step, "", "", "", 0))
    /\ inflight' = inflight \ {Call("sleep", step)}
    /\ plan_result' = None
    /\ returned' = Append(returned, "None")
    /\ given' = NoArgs
    /\ IF step < NSteps
       THEN step' = step + 1 /\ pc' = "set_start"
       ELSE step' = step /\ pc' = "shutdown"
    /\ UNCHANGED <<components, params, robotVer, nplans, runs>>

\* rclpy.shutdown()
Shutdown ==
    /\ pc = "shutdown"
    /\ trace' = Append(trace, Evt("rclpy_shutdown", 0, "", "", "", 0))
    /\ pc' = "done"
    /\ UNCHANGED <<step, plan_result, components, params, robotVer, nplans, inflight, returned, given, runs>>

Next ==
    \/ MainInit
    \/ SetStartState
    \/ SetGoalState
    \/ CallPlanAndExecute
    \/ LogPlanning
    \/ PlanCall
    \/ PlanSuccess
    \/ PlanFailure
    \/ PlanRaise
    \/ LogExecuting
    \/ LogFailed
    \/ ExecuteCall
    \/ ExecuteReturn
    \/ ExecuteRaise
    \/ SleepCall
    \/ SleepReturn
    \/ Shutdown

Spec == Init /\ [][Next]_vars

\* the single thread always takes its next step, and every blocking call ends
LiveSpec == Init /\ [][Next]_vars /\ WF_vars(Next)

\* launches of the process considered
MaxRuns == 2

\* persisted progress: a new launch resuming where the last one stopped
Relaunch_ResumesWhereItStopped ==
    /\ pc \in {"done", "crashed"}
    /\ Len(runs) + 1 < MaxRuns
    /\ runs' = Append(runs, trace)
    /\ pc' = Fresh.pc
    /\ step' = step
    /\ plan_result' = Fresh.plan_result
    /\ components' = Fresh.components
    /\ params' = Fresh.params
    /\ robotVer' = Fresh.robotVer
    /\ nplans' = Fresh.nplans
    /\ inflight' = Fresh.inflight
    /\ trace' = Fresh.trace
    /\ returned' = Fresh.returned
    /\ given' = Fresh.given

\* the program is launched again (if __name__ == '__main__': main()) after
\* the previous process has ended: everything main works with is created
\* anew, nothing of the earlier launch is kept by the program
Relaunch ==
    /\ pc \in {"done", "crashed"}
    /\ Len(runs) + 1 < MaxRuns
    /\ runs' = Append(runs, trace)
    /\ pc' = Fresh.pc
    /\ step' = Fresh.step
    /\ plan_result' = Fresh.plan_result
    /\ components' = Fresh.components
    /\ params' = Fresh.params
    /\ robotVer' = Fresh.robotVer
    /\ nplans' = Fresh.nplans
    /\ inflight' = Fresh.inflight
    /\ trace' = Fresh.trace
    /\ returned' = Fresh.returned
    /\ given' = Fresh.given

\* launches with a planner that finds a plan for every request
NextPlannerSucceeds ==
    \/ MainInit
    \/ SetStartState
    \/ SetGoalState
    \/ CallPlanAndExecute
    \/ LogPlanning
    \/ PlanCall
    \/ PlanSuccess
    \/ PlanRaise
    \/ LogExecuting
    \/ ExecuteCall
    \/ ExecuteReturn
    \/ ExecuteRaise
    \/ SleepCall
    \/ SleepReturn
    \/ Shutdown
    \/ Relaunch

SpecTwice == Init /\ [][NextPlannerSucceeds]_vars

\* largest sleep_time a caller passes
MaxSleep == 1

\* what a caller may pass for single_plan_parameters / multi_plan_parameters
SingleChoices == {"None", "plan_request_params", "gripper_plan_request_params"}

MultiChoices == {"None", "multi_pipeline_plan_request_params"}

\* plan_and_execute called on its own, with any combination of its optional
\* parameters
InitCall ==
    /\ pc = "log_planning"
    /\ given \in [planning_component : ComponentNames,
                  single_plan_parameters : SingleChoices,
                  multi_plan_parameters : MultiChoices,
                  sleep_time : 0..MaxSleep]
    /\ step = Fresh.step
    /\ plan_result = Fresh.plan_result
    /\ components = Fresh.components
    /\ params = Fresh.params
    /\ robotVer = Fresh.robotVer
    /\ nplans = Fresh.nplans
    /\ inflight = Fresh.inflight
    /\ trace = Fresh.trace
    /\ returned = Fresh.returned
    /\ runs = <<>>

\* time.sleep returns and plan_and_execute returns None to its caller
SleepReturnToCaller ==
    /\ pc = "sleeping"
    /\ trace' = Append(trace, Evt("sleep_return", step, "", "", "", 0))
    /\ inflight' = inflight \ {Call("sleep", step)}
    /\ plan_result' = None
    /\ returned' = Append(returned, "None")
    /\ given' = NoArgs
    /\ pc' = "returned"
    /\ UNCHANGED <<step, components, params, robotVer, nplans, runs>>

NextCall ==
    \/ LogPlanning
    \/ PlanCall
    \/ PlanSuccess
    \/ PlanFailure
    \/ PlanRaise
    \/ LogExecuting
    \/ LogFailed
    \/ ExecuteCall
    \/ ExecuteReturn
    \/ ExecuteRaise
    \/ SleepCall
    \/ SleepReturnToCaller

SpecCall == InitCall /\ [][NextCall]_vars

\* ------------------------------------------------- reading the trace

Ops(op) == {i \in DOMAIN trace : trace[i].op = op}

OpsOf(op, k) == {i \in DOMAIN trace : trace[i].op = op /\ trace[i].step = k}

IsPlanCall(e) == e.op = "plan"

IsExecuteCall(e) == e.op = "execute"

PlanCalls == SelectSeq(trace, IsPlanCall)

ExecuteCalls == SelectSeq(trace, IsExecuteCall)

\* the planner returned a plan / no plan for step k
Succeeded(k) == \E i \in OpsOf("plan_return", k) : trace[i].text = "Success"

Failed(k) == \E i \in OpsOf("plan_return", k) : trace[i].text = "Failure"

StepIds == 1..NSteps

BeforePlanning == {"main", "set_start", "set_goal", "call", "log_planning", "plan"}

\* ------------------------------------------------------------ claims

C2_FailureSkipsExecutionNoRetry ==
    /\ [](\A k \in StepIds :
            Failed(k) => /\ OpsOf("execute", k) = {}
                         /\ Cardinality(OpsOf("plan", k)) = 1)
    /\ \A k \in 1..(NSteps - 1) : Failed(k) ~> (OpsOf("plan", k + 1) # {})

C2_Witness ==
    /\ Failed(4)
    /\ OpsOf("execute", 4) = {}
    /\ OpsOf("plan", 5) # {}
    /\ Failed(5)
    /\ pc = "done"

\* C3: when the planner returns Success for a step, the executor is called
\* exactly once for that step, after the planner returned and with the
\* trajectory that call returned, before the step's delay and before the
\* planner is called for any later step; no trajectory is executed twice.
C3_SuccessExecutesOwnTrajectoryOnce ==
    /\ \A i \in Ops("plan_return") :
          trace[i].text = "Success" =>
            LET k == trace[i].step
            IN /\ Cardinality(OpsOf("execute", k)) <= 1
               /\ \A e \in OpsOf("execute", k) : e > i /\ trace[e].num = trace[i].num
               /\ \A j \in DOMAIN trace :
                     (j > i /\ \/ (trace[j].op = "plan" /\ trace[j].step > k)
                               \/ (trace[j].op = "sleep" /\ trace[j].step = k))
                     => \E e \in OpsOf("execute", k) : i < e /\ e < j
    /\ \A e \in Ops("execute") : Succeeded(trace[e].step)
    /\ \A e1, e2 \in Ops("execute") : trace[e1].num = trace[e2].num => e1 = e2

C3_Witness ==
    /\ pc = "done"
    /\ Succeeded(1) /\ Succeeded(2) /\ Failed(3) /\ Succeeded(9)
    /\ Cardinality(Ops("execute")) >= 3

IsResultNotice(e) ==
    e.op \in {"log_info", "log_warn", "log_error"}
    /\ e.text \in {"Executing plan", "Planning failed"}

ResultNotices == SelectSeq(trace, IsResultNotice)

\* C5 as stated: running the steps yields a report with one entry per step,
\* Executed after Success and PlanningFailed after Failure.
C5_RunYieldsExecutionReport ==
    \A k \in 1..Len(returned) :
        returned[k] = (IF Succeeded(k) THEN "Executed" ELSE "PlanningFailed")

\* C5, amended: plan_and_execute returns None for every step, so no report is
\* yielded; the per-step result is recorded only in the log, which receives
\* exactly one result notice per step, in step order, "Executing plan" when
\* the step's outcome was Success and "Planning failed" when it was Failure;
\* Failure then Success on two consecutive steps gives the notices
\* "Planning failed", "Executing plan" and exactly one executor call.
C5_ResultPerStepOnlyInLog ==
    /\ \A k \in 1..Len(returned) : returned[k] = "None"
    /\ \A k \in 1..Len(ResultNotices) :
          /\ ResultNotices[k].step = k
          /\ ResultNotices[k].text = "Executing plan" <=> Succeeded(k)
          /\ ResultNotices[k].text = "Planning failed" <=> Failed(k)
    /\ Len(returned) <= Len(ResultNotices)
    /\ Len(ResultNotices) <= Len(returned) + 1
    /\ pc = "done" => Len(ResultNotices) = NSteps
    /\ \A k \in 1..(NSteps - 1) :
          (Failed(k) /\ Succeeded(k + 1) /\ Len(returned) >= k + 1) =>
             /\ ResultNotices[k].text = "Planning failed"
             /\ ResultNotices[k + 1].text = "Executing plan"
             /\ Cardinality(OpsOf("execute", k) \cup OpsOf("execute", k + 1)) = 1

C5_Witness ==
    /\ Failed(2) /\ Succeeded(3)
    /\ Len(returned) = 3
    /\ Len(ResultNotices) = 3

\* C6: for every step, after Success and after Failure alike, time.sleep is
\* called exactly once with the step's sleep_time, after the planner call has
\* returned (and after the executor call has returned when there is one) and
\* before the planner call of the next step.
C6_DelayOncePerStepWhateverTheOutcome ==
    /\ \A k \in StepIds :
          /\ Cardinality(OpsOf("sleep", k)) <= 1
          /\ \A d \in OpsOf("sleep", k) :
                /\ trace[d].num = MainSequence[k].sleep_time
                /\ \E r \in OpsOf("plan_return", k) : r < d
                /\ \A e \in OpsOf("execute", k) :
                      \E r \in OpsOf("execute_return", k) : e < r /\ r < d
          /\ \A j \in OpsOf("plan", k + 1) :
                \E d \in OpsOf("sleep", k), r \in OpsOf("sleep_return", k) :
                    d < r /\ r < j
          /\ k <= Len(returned) => Cardinality(OpsOf("sleep", k)) = 1
    /\ pc = "done" => Len(returned) = NSteps

C6_Witness ==
    /\ pc = "done"
    /\ Failed(1) /\ Succeeded(2) /\ Failed(9)
    /\ Cardinality(Ops("sleep")) = NSteps

IsRaise(e) == e.op \in {"plan_raise", "execute_raise"}

\* C7: a fault raised by a planner or executor call is not caught: it ends
\* the run at that call, so the step's delay is not invoked, nothing of a
\* later step happens and the shutdown call is not reached.
C7_FaultPropagatesAndEndsTheRun ==
    /\ \A i \in DOMAIN trace :
          IsRaise(trace[i]) =>
             /\ i = Len(trace)
             /\ pc = "crashed"
             /\ inflight = {}
             /\ OpsOf("sleep", trace[i].step) = {}
             /\ \A j \in DOMAIN trace : trace[j].step <= trace[i].step
             /\ Ops("rclpy_shutdown") = {}
             /\ Len(returned) = trace[i].step - 1
    /\ pc = "crashed" => (trace # <<>> /\ IsRaise(trace[Len(trace)]))

C7_Witness ==
    /\ pc = "crashed"
    /\ step = 4
    /\ trace[Len(trace)].op = "execute_raise"
    /\ Failed(2)

\* C8: for each step the log receives the info notice "Planning trajectory"
\* before the planner call, then exactly one of the info notice "Executing
\* plan" (if and only if the outcome is Success, before the executor call) or
\* the error notice "Planning failed" (if and only if the outcome is
\* Failure); after a Failure the step does not raise: it goes on to its delay.
C8_PlanningFailureLoggedAndAbsorbed ==
    /\ \A j \in Ops("plan") :
          \E i \in OpsOf("log_info", trace[j].step) :
              i < j /\ trace[i].text = "Planning trajectory"
    /\ \A k \in StepIds :
          LET notices == {i \in DOMAIN trace : trace[i].step = k /\ IsResultNotice(trace[i])}
          IN /\ Cardinality(notices) <= 1
             /\ \A i \in notices :
                   /\ \E r \in OpsOf("plan_return", k) : r < i
                   /\ Succeeded(k) <=>
                        (trace[i].op = "log_info" /\ trace[i].text = "Executing plan")
                   /\ Failed(k) <=>
                        (trace[i].op = "log_error" /\ trace[i].text = "Planning failed")
             /\ \A e \in OpsOf("execute", k) : \E i \in notices : i < e
             /\ \A d \in OpsOf("sleep", k) : notices # {}
             /\ Failed(k) => /\ \A i \in DOMAIN trace : trace[i].step = k => ~IsRaise(trace[i])
                             /\ ~(pc = "crashed" /\ step = k)
    /\ pc = "done" => \A k \in StepIds : Succeeded(k) \/ Failed(k)

C8_Witness ==
    /\ pc = "done"
    /\ Failed(3) /\ Succeeded(4)
    /\ \E i \in OpsOf("log_error", 3) : trace[i].text = "Planning failed"

\* C9: at most one of the planner call, the executor call and the delay is in
\* progress, and it belongs to the step main is at; the planner call of step
\* k+1 starts only after the planner call, the executor call (if any) and
\* the delay of step k have returned.
C9_OneBlockingCallAtATime ==
    /\ Cardinality(inflight) <= 1
    /\ \A c \in inflight : c.step = step
    /\ \A j \in Ops("plan") :
          LET k == trace[j].step - 1
          IN k >= 1 =>
               /\ \E r \in OpsOf("plan_return", k) : r < j
               /\ \A e \in OpsOf("execute", k) :
                     \E r \in OpsOf("execute_return", k) : e < r /\ r < j
               /\ \E r \in OpsOf("sleep_return", k) : r < j

C9_Witness ==
    /\ inflight = {Call("execute", 5)}
    /\ Succeeded(4) /\ Failed(3)

IsPlanOrExecuteCall(e) == e.op \in {"plan", "execute"}

\* a call without the identities of the objects of its process
CallShape(e) ==
    [op |-> e.op, step |-> e.step, comp |-> e.comp, kw |-> e.kw,
     text |-> (IF e.op = "plan" THEN e.text ELSE ""), goal |-> e.goal]

\* the planner and executor calls of a launch, in order
CallsIn(t) ==
    LET c == SelectSeq(t, IsPlanOrExecuteCall)
    IN [i \in 1..Len(c) |-> CallShape(c[i])]

\* the per-step results of a launch, read from its result notices
ResultsIn(t) ==
    LET n == SelectSeq(t, IsResultNotice)
    IN [i \in 1..Len(n) |->
          IF n[i].op = "log_info" /\ n[i].text = "Executing plan"
          THEN "Executed" ELSE "PlanningFailed"]

Completed(t) == t # <<>> /\ t[Len(t)].op = "rclpy_shutdown"

IsPrefix(a, b) == Len(a) <= Len(b) /\ \A i \in 1..Len(a) : a[i] = b[i]

AllLaunches == runs \o <<trace>>

StepState(k) ==
    IF OpsOf("execute_return", k) # {} THEN "Done"
    ELSE IF OpsOf("execute", k) # {} THEN "Executing"
    ELSE IF Failed(k) THEN "Failed"
    ELSE IF OpsOf("plan", k) # {} THEN "Planning"
    ELSE IF k <= step /\ pc # "main" THEN "Pending"
    ELSE "NotReached"

StepTransitions ==
    { <<"NotReached", "Pending">>, <<"Pending", "Planning">>,
      <<"Planning", "Executing">>, <<"Planning", "Failed">>,
      <<"Executing", "Done">> }

\* C11: each step moves only Pending -> Planning, Planning -> Executing (and
\* then only after a Success), Planning -> Failed (on Failure) and
\* Executing -> Done; Done and Failed are final; a step in Executing has been
\* planned; main reaches the next step only from Done or Failed of the
\* current one.
C11_StepStateMachine ==
    /\ [][\A k \in StepIds :
            /\ StepState(k)' # StepState(k) =>
                  <<StepState(k), StepState(k)'>> \in StepTransitions
            /\ (StepState(k) = "Planning" /\ StepState(k)' = "Executing") =>
                  Succeeded(k)'
            /\ (StepState(k) = "Planning" /\ StepState(k)' = "Failed") =>
                  ~Succeeded(k)'
            /\ (StepState(k) = "NotReached" /\ StepState(k)' = "Pending" /\ k > 1) =>
                  StepState(k - 1) \in {"Done", "Failed"}]_vars
    /\ [](\A k \in StepIds :
            /\ StepState(k) \in {"Executing", "Done"} =>
                  \E i \in OpsOf("plan", k), e \in OpsOf("execute", k) : i < e
            /\ (k < step) => StepState(k) \in {"Done", "Failed"}
            /\ (k > step) => StepState(k) = "NotReached")

C11_Witness ==
    /\ StepState(1) = "Done"
    /\ StepState(2) = "Failed"
    /\ StepState(3) = "Executing"
    /\ StepState(4) = "NotReached"

\* a planning request as the planner receives it: component, goal, the
\* keyword and the parameters instance with its scaling factors
RequestOf(e) ==
    [comp |-> e.comp, goal |-> e.goal, kw |-> e.kw, parameters |-> e.text,
     acc |-> params[e.text].acc, vel |-> params[e.text].vel]

Requests == [i \in 1..Len(PlanCalls) |-> RequestOf(PlanCalls[i])]

\* the requests of a run of main in which every step is planned
RequestsOfMain ==
    [k \in StepIds |->
        [comp |-> MainSequence[k].comp, goal |-> MainSequence[k].goal,
         kw |-> "single_plan_parameters", parameters |-> MainSequence[k].single,
         acc |-> ScalingTenths, vel |-> ScalingTenths]]

\* C12: whatever the planner returned for the steps so far and whatever the
\* executor did, the planning requests submitted so far (component, goal,
\* parameters) are the first requests of one and the same list: no outcome
\* changes which step is planned next or with what goal.
C12_RequestsIndependentOfOutcomes ==
    /\ IsPrefix(Requests, RequestsOfMain)
    /\ Len(Requests) >= Len(returned)
    /\ pc = "done" => Requests = RequestsOfMain

C12_Witness ==
    /\ pc = "done"
    /\ Failed(1) /\ Succeeded(2) /\ Failed(3) /\ Succeeded(8)
    /\ Requests = RequestsOfMain

\* the version of the robot's state when event j happened: the number of
\* trajectories executed before it
RobotVersionAt(j) ==
    Cardinality({i \in Ops("execute_return") : i < j})

\* C13: every planner call is preceded, within its step and on its planning
\* component, by set_start_state_to_current_state and then set_goal_state
\* with the step's goal; the start state it plans from is the robot's state
\* as it is at the call, never one taken before the previous step's
\* execution, also when the previous step's planning failed.
C13_FreshStartStateBeforeEveryPlan ==
    \A j \in Ops("plan") :
        LET k == trace[j].step
            c == trace[j].comp
        IN /\ \E s \in OpsOf("set_start_state", k), g \in OpsOf("set_goal_state", k) :
                 /\ s < g /\ g < j
                 /\ trace[s].comp = c /\ trace[g].comp = c
                 /\ trace[g].kw = MainSequence[k].goal.kind
                 /\ trace[g].text = MainSequence[k].goal.group
                 /\ trace[g].num = MainSequence[k].goal.deg
                 /\ \A i \in DOMAIN trace : (trace[i].step < k /\ trace[i].step > 0) => i < s
                 /\ trace[s].num = RobotVersionAt(s)
           /\ trace[j].num = RobotVersionAt(j)
           /\ trace[j].goal = MainSequence[k].goal

C13_Witness ==
    /\ Succeeded(2) /\ Failed(3) /\ Succeeded(4)
    /\ Failed(1)
    /\ \E j \in OpsOf("plan", 5) : trace[j].num = 2 /\ RobotVersionAt(j) = 2

\* C14: for every step of main the group named in the step's goal is the
\* group of the planning component it plans and executes with: left-gripper
\* steps set joint positions of l_gripper_group only, right-gripper steps of
\* r_gripper_group only, and the arm step uses a named configuration of the
\* arm's group; so it is for every goal set and every request planned.
C14_GoalGroupIsComponentGroup ==
    /\ \A k \in StepIds :
          LET st == MainSequence[k]
          IN /\ st.goal.group = GroupOf(st.comp)
             /\ st.comp = "l_gripper" =>
                   st.goal.kind = "robot_state" /\ st.goal.group = "l_gripper_group"
             /\ st.comp = "r_gripper" =>
                   st.goal.kind = "robot_state" /\ st.goal.group = "r_gripper_group"
             /\ st.comp = "arm" =>
                   /\ st.goal.kind = "configuration_name"
                   /\ st.goal.group = "two_arm_group"
                   /\ st.goal.name = "two_arm_init_pose"
    /\ \A g \in Ops("set_goal_state") : trace[g].text = GroupOf(trace[g].comp)
    /\ \A j \in Ops("plan") : trace[j].goal.group = GroupOf(trace[j].comp)
    /\ \A c \in ComponentNames :
          components[c].goal # NoGoal => components[c].goal.group = GroupOf(c)

C14_Witness ==
    /\ pc = "done"
    /\ \E j \in OpsOf("plan", 3) : trace[j].goal.group = "l_gripper_group"
    /\ \E j \in OpsOf("plan", 7) : trace[j].goal.group = "r_gripper_group"
    /\ components["arm"].goal.group = "two_arm_group"

\* the positions of the thread inside plan_and_execute
InPlanAndExecute ==
    {"log_planning", "plan", "planning", "if_plan_result", "execute", "executing",
     "sleep", "sleeping"}

\* C15: from the first planner call on neither parameters instance is
\* modified; plan_and_execute changes neither the parameters instances nor
\* the planning component it is given, nor its own arguments; the steps are
\* planned in main's order, the arm step with plan_request_params and every
\* gripper step with gripper_plan_request_params, both still as set up.
C15_ParametersAndStepsNotModified ==
    /\ [][Ops("plan") # {} => params' = params]_vars
    /\ [][(pc \in InPlanAndExecute) =>
            (/\ params' = params
             /\ components' = components
             /\ (pc' \in InPlanAndExecute => given' = given))]_vars
    /\ [](\A j \in Ops("plan") :
            /\ trace[j].kw = "single_plan_parameters"
            /\ trace[j].comp = "arm" => trace[j].text = "plan_request_params"
            /\ trace[j].comp \in {"l_gripper", "r_gripper"} =>
                  trace[j].text = "gripper_plan_request_params"
            /\ trace[j].comp = MainSequence[trace[j].step].comp
            /\ trace[j].goal = MainSequence[trace[j].step].goal
            /\ \A q \in DOMAIN params :
                  params[q] = [created |-> TRUE, acc |-> ScalingTenths,
                               vel |-> ScalingTenths])

C15_Witness ==
    /\ pc = "done"
    /\ Failed(4) /\ Succeeded(5) /\ Failed(6)
    /\ \A q \in DOMAIN params : params[q].created /\ params[q].vel = ScalingTenths
    /\ \E j \in OpsOf("plan", 9) : trace[j].text = "gripper_plan_request_params"

\* the goals requested so far: component, named configuration, angle
GoalsRequested ==
    [i \in 1..Len(PlanCalls) |->
        <<PlanCalls[i].comp, PlanCalls[i].goal.name, PlanCalls[i].goal.deg>>]

\* the order of the demo: arm to the init pose, left gripper open, close,
\* open, close, right gripper open, close, open, close
DemoOrder ==
    << <<"arm", "two_arm_init_pose", 0>>,
       <<"l_gripper", "", L_GRIPPER_OPEN>>, <<"l_gripper", "", L_GRIPPER_CLOSE>>,
       <<"l_gripper", "", L_GRIPPER_OPEN>>, <<"l_gripper", "", L_GRIPPER_CLOSE>>,
       <<"r_gripper", "", R_GRIPPER_OPEN>>, <<"r_gripper", "", R_GRIPPER_CLOSE>>,
       <<"r_gripper", "", R_GRIPPER_OPEN>>, <<"r_gripper", "", R_GRIPPER_CLOSE>> >>

\* the steps of component c whose trajectory has been executed
ExecutedOn(c) ==
    {k \in StepIds : OpsOf("execute_return", k) # {} /\ MainSequence[k].comp = c}

\* where gripper c stands: the goal of the last trajectory executed on it
\* (an executed trajectory ends at the goal it was planned for)
GripperAngle(c) ==
    LET last == CHOOSE k \in ExecutedOn(c) : \A m \in ExecutedOn(c) : m <= k
    IN MainSequence[last].goal.deg

\* C16: the goals are requested in the demo's fixed order; no right-gripper
\* step is planned before every left-gripper step has finished; open and
\* close alternate for each gripper starting with open; the last goal
\* requested for each gripper is close, so when every plan of a finished run
\* succeeded both grippers are closed.
C16_DemoOrderEndsWithGrippersClosed ==
    /\ IsPrefix(GoalsRequested, DemoOrder)
    /\ L_GRIPPER_OPEN # L_GRIPPER_CLOSE /\ R_GRIPPER_OPEN # R_GRIPPER_CLOSE
    /\ \A j \in Ops("plan") :
          trace[j].comp = "r_gripper" =>
             \A k \in StepIds :
                MainSequence[k].comp = "l_gripper" =>
                   \E r \in OpsOf("sleep_return", k) : r < j
    /\ pc = "done" =>
          /\ GoalsRequested = DemoOrder
          /\ (\A k \in StepIds : Succeeded(k)) =>
                /\ GripperAngle("l_gripper") = L_GRIPPER_CLOSE
                /\ GripperAngle("r_gripper") = R_GRIPPER_CLOSE

C16_Witness ==
    /\ pc = "done"
    /\ \A k \in StepIds : Succeeded(k)
    /\ GripperAngle("l_gripper") = 0
    /\ GripperAngle("r_gripper") = 0

\* C17: plan_and_execute calls the planner exactly once per invocation for
\* every combination of its optional parameters: with multi_plan_parameters
\* when that is given (single_plan_parameters, if given too, is ignored),
\* otherwise with single_plan_parameters when that is given, otherwise with
\* no parameters.
C17_OnePlannerCallForEveryCombination ==
    /\ Cardinality(Ops("plan")) <= 1
    /\ pc \notin {"log_planning", "plan"} => Cardinality(Ops("plan")) = 1
    /\ pc \in InPlanAndExecute =>
          \A j \in Ops("plan") :
             /\ trace[j].comp = given.planning_component
             /\ given.multi_plan_parameters # "None" =>
                   /\ trace[j].kw = "multi_plan_parameters"
                   /\ trace[j].text = given.multi_plan_parameters
             /\ (given.multi_plan_parameters = "None"
                 /\ given.single_plan_parameters # "None") =>
                   /\ trace[j].kw = "single_plan_parameters"
                   /\ trace[j].text = given.single_plan_parameters
             /\ (given.multi_plan_parameters = "None"
                 /\ given.single_plan_parameters = "None") =>
                   /\ trace[j].kw = ""
                   /\ trace[j].text = "None"

C17_Witness ==
    /\ pc = "sleeping"
    /\ given.multi_plan_parameters # "None"
    /\ given.single_plan_parameters # "None"
    /\ \E j \in Ops("plan") : trace[j].kw = "multi_plan_parameters"
    /\ Cardinality(Ops("plan")) = 1

====
